---------------------------- MODULE Spec2Model ----------------------------
(***************************************************************************)
(* A model of the TextEditor React component (src/src/TextEditor.js, the   *)
(* generation with link support, lines 435-894; the converters are those   *)
(* of the previous generation, lines 109-149).                             *)
(*                                                                         *)
(* A document is a sequence of blocks; a block is a type and a sequence of *)
(* characters; a character carries its text atom, its entity key (0: none) *)
(* and whether it is bold.  A text atom is one word of the text: "w" is a  *)
(* plain word, "n.co" a URL without protocol, "http://n.co" a URL.         *)
(* The entity table is draft-js' global DraftEntity store: a sequence of   *)
(* entity data, the key of an entity being its index.                      *)
(***************************************************************************)
EXTENDS Integers, Sequences, FiniteSets, TLC

\* ------------------------------------------------------------- bounds
\* The number of events (calls of a handler, resolutions of a prompt) of a
\* session after the editor is mounted.
MaxEvents == 3

\* ------------------------------------------------------------- data
Atoms == {"w", "n.co", "http://n.co"}
TypedAtoms == {"w", "n.co"}
BlockTypeNames == {"unstyled", "header-one"}
ToggleBlockTypes == {"header-one"}
Types == {"html", "json"}
Commands == {"bold", "backspace", "split-block"}
\* The actions of the link buttons, and one that is none of them.
LinkActions == {"ADD", "EDIT", "DELETE", "OTHER"}
\* What the user may type into the link prompt.
EnteredHrefs == {"", " ", "n.co", "w"}

NoLinkState == [set |-> FALSE, href |-> ""]
NoLink == [found |-> FALSE, key |-> 0, s |-> 0, e |-> 0]

\* String.prototype.trim on the entered hrefs.
trim(h) == IF h = " " THEN "" ELSE h

\* linkify.match(href): the url of the first match, or "null".
\* A URL without protocol is given http://.
linkifyMatch(h) ==
  CASE h = "n.co" -> "http://n.co"
    [] h = "http://n.co" -> "http://n.co"
    [] OTHER -> "null"

\* The link detection strategy on one text atom.
linkStrategy(a) == linkifyMatch(a) # "null"

Char(a, k, b) == [ch |-> a, ent |-> k, bold |-> b]
Block(t, cs) == [type |-> t, chars |-> cs]
Sel(b, s, e, f) == [blk |-> b, s |-> s, e |-> e, hasFocus |-> f]
EState(c, sel) == [content |-> c, sel |-> sel]

isCollapsed(sel) == sel.s = sel.e

\* ContentState.createFromText('')
createFromText == << Block("unstyled", << >>) >>

\* The selection of a content that has just been created: collapsed at the
\* start of the first block, without focus.
createEmpty == Sel(1, 0, 0, FALSE)

\* EditorState.createWithContent(content, decorators)
createWithContent(content) == EState(content, createEmpty)

\* EditorState.push(editorState, content): the new content with the
\* selection the content carries as its selectionAfter.
push(es, content, selectionAfter) == EState(content, selectionAfter)

\* The selections within one block of a content.
SelectionsOf(content) ==
  UNION { { Sel(b, s, e, f) : s \in 0..Len(content[b].chars),
                              e \in 0..Len(content[b].chars), f \in BOOLEAN } :
          b \in 1..Len(content) }
    \ { x \in UNION { { Sel(b, s, e, f) : s \in 0..Len(content[b].chars),
                                          e \in 0..Len(content[b].chars),
                                          f \in BOOLEAN } :
                      b \in 1..Len(content) } : x.s > x.e }

\* ------------------------------------------------------------- draft-js
\* An applyEntity that takes the whole block for the selected range.
applyEntityToBlock(content, sel, key) ==
  [content EXCEPT ![sel.blk].chars = [i \in 1..Len(@) |-> [@[i] EXCEPT !.ent = key]]]

\* Modifier.applyEntity(content, selection, key): every character of the
\* selected range gets the key (0 removes the entity).
applyEntity(content, sel, key) ==
  [content EXCEPT ![sel.blk].chars =
     [i \in 1..Len(@) |->
        IF sel.s < i /\ i <= sel.e THEN [@[i] EXCEPT !.ent = key] ELSE @[i]]]

\* RichUtils.toggleLink(editorState, selection, key)
toggleLink(es, sel, key) == push(es, applyEntity(es.content, sel, key), sel)

\* An insertText that drops the entity key.
insertTextWithoutEntity(content, sel, a, key) ==
  [content EXCEPT ![sel.blk].chars =
     SubSeq(@, 1, sel.s) \o << Char(a, 0, FALSE) >> \o SubSeq(@, sel.s + 1, Len(@))]

\* Modifier.insertText(content, selection, text, null, key), the selection
\* collapsed: the text goes in at the cursor, without style, with the key.
insertText(content, sel, a, key) ==
  [content EXCEPT ![sel.blk].chars =
     SubSeq(@, 1, sel.s) \o << Char(a, key, FALSE) >> \o SubSeq(@, sel.s + 1, Len(@))]

\* The selection insertText leaves: the cursor after the inserted text.
afterInsert(sel) == Sel(sel.blk, sel.s + 1, sel.s + 1, sel.hasFocus)

\* The entity a typed character inherits (getEntityKeyForSelection): the one
\* on both sides of the cursor, all entities here being MUTABLE.
entityForInsert(content, sel) ==
  LET cs == content[sel.blk].chars IN
  IF sel.s > 0 /\ sel.s < Len(cs) /\ cs[sel.s].ent = cs[sel.s + 1].ent
  THEN cs[sel.s].ent ELSE 0

\* Backspace in the text: the character before the cursor goes.
removeBefore(content, sel) ==
  [content EXCEPT ![sel.blk].chars =
     SubSeq(@, 1, sel.s - 1) \o SubSeq(@, sel.s + 1, Len(@))]

\* RichUtils.toggleInlineStyle(editorState, 'BOLD'): on a range, bold is
\* removed when the first selected character is bold and applied otherwise;
\* on a cursor only the style override changes, which is not content.
toggleInlineStyle(es) ==
  LET sel == es.sel
      cs == es.content[sel.blk].chars
      on == ~cs[sel.s + 1].bold
  IN IF isCollapsed(sel) THEN es
     ELSE push(es,
               [es.content EXCEPT ![sel.blk].chars =
                  [i \in 1..Len(@) |->
                     IF sel.s < i /\ i <= sel.e
                     THEN [@[i] EXCEPT !.bold = on] ELSE @[i]]],
               sel)

\* RichUtils.toggleBlockType(editorState, blockType)
toggleBlockType(es, blockType) ==
  LET typeToSet == IF es.content[es.sel.blk].type = blockType
                   THEN "unstyled" ELSE blockType
  IN push(es, [es.content EXCEPT ![es.sel.blk].type = typeToSet], es.sel)

\* Modifier.splitBlock(content, selection): the selected range is removed and
\* the block is split at the cursor; the cursor goes to the new block.
splitBlock(content, sel) ==
  LET b == content[sel.blk]
      head == Block(b.type, SubSeq(b.chars, 1, sel.s))
      tail == Block(b.type, SubSeq(b.chars, sel.e + 1, Len(b.chars)))
  IN SubSeq(content, 1, sel.blk - 1) \o << head, tail >>
       \o SubSeq(content, sel.blk + 1, Len(content))

afterSplit(sel) == Sel(sel.blk + 1, 0, 0, sel.hasFocus)

\* RichUtils.onBackspace / tryToRemoveBlockStyle
onBackspace(es) ==
  LET sel == es.sel
      b == es.content[sel.blk]
  IN IF isCollapsed(sel) /\ sel.s = 0
        /\ (Len(b.chars) = 0 \/ sel.blk = 1)
        /\ b.type # "unstyled"
     THEN [handled |-> TRUE,
           es |-> push(es, [es.content EXCEPT ![sel.blk].type = "unstyled"], sel)]
     ELSE [handled |-> FALSE, es |-> es]

\* RichUtils.handleKeyCommand(editorState, command): the new state, or null.
richHandleKeyCommand(es, command) ==
  CASE command = "bold" -> [handled |-> TRUE, es |-> toggleInlineStyle(es)]
    [] command = "backspace" -> onBackspace(es)
    [] OTHER -> [handled |-> FALSE, es |-> es]


\* ------------------------------------------------------------- converters
\* A serialized value: what the host hands in as props.value and receives in
\* onChange.  A character of it carries its key into the value's own entity
\* map (json; -1: none) or its href (html; "": none).
VChar(a, b, k, h) == [ch |-> a, bold |-> b, ekey |-> k, href |-> h]
Value(f, bs, em) == [fmt |-> f, blocks |-> bs, entityMap |-> em]
Falsy == Value("falsy", << >>, << >>)

\* The entity keys of a content in the order of their first appearance.
RECURSIVE keysIn(_, _, _, _)
keysIn(content, b, j, acc) ==
  IF b > Len(content) THEN acc
  ELSE IF j > Len(content[b].chars) THEN keysIn(content, b + 1, 1, acc)
  ELSE LET k == content[b].chars[j].ent IN
       keysIn(content, b, j + 1,
              IF k = 0 \/ \E i \in 1..Len(acc) : acc[i] = k
              THEN acc ELSE Append(acc, k))

indexOf(seq, k) == CHOOSE i \in 1..Len(seq) : seq[i] = k

\* convertToRaw(content): the blocks with their entity ranges, the entities
\* in use renumbered from 0 in the order of their first appearance.
convertToRaw(content, em) ==
  LET order == keysIn(content, 1, 1, << >>) IN
  Value("json",
        [b \in 1..Len(content) |->
           Block(content[b].type,
                 [j \in 1..Len(content[b].chars) |->
                    LET c == content[b].chars[j] IN
                    VChar(c.ch, c.bold,
                          IF c.ent = 0 THEN -1 ELSE indexOf(order, c.ent) - 1,
                          "")])],
        [i \in 1..Len(order) |-> em[order[i]]])

\* convertToHTML(content): every block as the tag of its type, every
\* character in its style tags and, when it has an entity, in an anchor.
convertToHTML(content, em) ==
  Value("html",
        [b \in 1..Len(content) |->
           Block(content[b].type,
                 [j \in 1..Len(content[b].chars) |->
                    LET c == content[b].chars[j] IN
                    VChar(c.ch, c.bold, -1,
                          IF c.ent = 0 THEN "" ELSE em[c.ent].href)])],
        << >>)

\* The ContentState object itself, handed out as it is.
contentObject(content) ==
  Value("ContentState",
        [b \in 1..Len(content) |->
           Block(content[b].type,
                 [j \in 1..Len(content[b].chars) |->
                    LET c == content[b].chars[j] IN
                    VChar(c.ch, c.bold, c.ent, "")])],
        << >>)

\* convertHTMLToString(str): what is not a string is returned as it is.
convertHTMLToString(content) == contentObject(content)

convertContentTo(content, type, em) ==
  IF type = "json" THEN convertToRaw(content, em)
  ELSE IF type = "html" THEN convertToHTML(content, em)
  ELSE IF type = "text" THEN convertHTMLToString(content)
  ELSE contentObject(content)

\* A convertFromRaw that does not read the inline style ranges.
convertFromRawUnstyled(value, em) ==
  [content |->
     [b \in 1..Len(value.blocks) |->
        Block(value.blocks[b].type,
              [j \in 1..Len(value.blocks[b].chars) |->
                 LET c == value.blocks[b].chars[j] IN
                 Char(c.ch, IF c.ekey < 0 THEN 0 ELSE Len(em) + c.ekey + 1, FALSE)])],
   em |-> em \o value.entityMap]

\* convertFromRaw(raw): every entity of the raw entity map is created in the
\* entity store, and the characters refer to the created keys.
convertFromRaw(value, em) ==
  [content |->
     [b \in 1..Len(value.blocks) |->
        Block(value.blocks[b].type,
              [j \in 1..Len(value.blocks[b].chars) |->
                 LET c == value.blocks[b].chars[j] IN
                 Char(c.ch, IF c.ekey < 0 THEN 0 ELSE Len(em) + c.ekey + 1, c.bold)])],
   em |-> em \o value.entityMap]

\* The characters of one block of an html value: every anchor (a run of
\* characters of one href) becomes an entity.
RECURSIVE fromHTMLChars(_, _, _, _)
fromHTMLChars(cs, j, em, acc) ==
  IF j > Len(cs) THEN [chars |-> acc, em |-> em]
  ELSE LET c == cs[j] IN
       IF c.href = "" THEN fromHTMLChars(cs, j + 1, em, Append(acc, Char(c.ch, 0, c.bold)))
       ELSE IF j > 1 /\ cs[j - 1].href = c.href
       THEN fromHTMLChars(cs, j + 1, em, Append(acc, Char(c.ch, acc[j - 1].ent, c.bold)))
       ELSE fromHTMLChars(cs, j + 1,
                          Append(em, [href |-> c.href, created |-> "existing"]),
                          Append(acc, Char(c.ch, Len(em) + 1, c.bold)))

RECURSIVE fromHTMLBlocks(_, _, _, _)
fromHTMLBlocks(bs, b, em, acc) ==
  IF b > Len(bs) THEN [content |-> acc, em |-> em]
  ELSE LET r == fromHTMLChars(bs[b].chars, 1, em, << >>) IN
       fromHTMLBlocks(bs, b + 1, r.em, Append(acc, Block(bs[b].type, r.chars)))

\* convertFromHTML(html): the blocks by their tags, the characters by their
\* style tags, the anchors as entities.
convertFromHTML(value, em) == fromHTMLBlocks(value.blocks, 1, em, << >>)

\* props.value handed on as it is: the blocks of the object the host built.
valueItself(value) ==
  [b \in 1..Len(value.blocks) |->
     Block(value.blocks[b].type,
           [j \in 1..Len(value.blocks[b].chars) |->
              LET c == value.blocks[b].chars[j] IN
              Char(c.ch, IF c.ekey < 0 THEN 0 ELSE c.ekey, c.bold)])]

convertContentFrom(value, type, em) ==
  IF value.fmt = "falsy" THEN [content |-> createFromText, em |-> em]
  ELSE IF type = "json" THEN convertFromRaw(value, em)
  ELSE IF type = "html" THEN convertFromHTML(value, em)
  ELSE [content |-> valueItself(value), em |-> em]

\* The values the host supplies as props.value for a type.
\* Nothing; a header that is a URL; a link of two words, the first of them a
\* URL, followed by a word.
ValuesOf(type) ==
  IF type = "json"
  THEN { Falsy,
         Value("json", << Block("header-one", << VChar("n.co", FALSE, -1, "") >>) >>, << >>),
         Value("json",
               << Block("unstyled", << VChar("n.co", FALSE, 0, ""), VChar("w", FALSE, 0, ""),
                                       VChar("w", FALSE, -1, "") >>) >>,
               << [href |-> "http://m.co", created |-> "insert"] >>) }
  ELSE { Falsy,
         Value("html", << Block("header-one", << VChar("n.co", FALSE, -1, "") >>) >>, << >>),
         Value("html",
               << Block("unstyled", << VChar("n.co", FALSE, -1, "http://m.co"),
                                       VChar("w", FALSE, -1, "http://m.co"),
                                       VChar("w", FALSE, -1, "") >>) >>,
               << >>) }

\* ------------------------------------------------------------- style normalizer
\* A convertAllStyles that loses the selection with the block types.
convertAllStylesLosingSelection(es, allowBlock) ==
  IF allowBlock THEN es
  ELSE createWithContent([b \in 1..Len(es.content) |->
                            [es.content[b] EXCEPT !.type = "unstyled"]])

\* convertAllStyles(editorState, {allowBlock}): without block styles every
\* block is of the default type.
convertAllStyles(es, allowBlock) ==
  IF allowBlock THEN es
  ELSE [es EXCEPT !.content =
          [b \in 1..Len(@) |-> [@[b] EXCEPT !.type = "unstyled"]]]

\* convertStyles(editorState, selection, {allowBlock})
convertStyles(es, sel, allowBlock) == convertAllStyles(es, allowBlock)

\* ------------------------------------------------------------- link engine
\* The first and last character of the run of entity k around character i.
RECURSIVE spanStart(_, _, _)
spanStart(cs, i, k) ==
  IF i > 1 /\ cs[i - 1].ent = k THEN spanStart(cs, i - 1, k) ELSE i

RECURSIVE spanEnd(_, _, _)
spanEnd(cs, i, k) ==
  IF i < Len(cs) /\ cs[i + 1].ent = k THEN spanEnd(cs, i + 1, k) ELSE i

\* getLink(editorState, selection): the link at the cursor (the character
\* after it) or the first link the selected range overlaps, with the range
\* of the whole link; or null.
getLink(es, sel) ==
  LET cs == es.content[sel.blk].chars
      hits == IF isCollapsed(sel)
              THEN { i \in {sel.s + 1} : i <= Len(cs) /\ cs[i].ent # 0 }
              ELSE { i \in (sel.s + 1)..sel.e : cs[i].ent # 0 }
  IN IF hits = {} THEN NoLink
     ELSE LET i == CHOOSE x \in hits : \A y \in hits : x <= y
              k == cs[i].ent
          IN [found |-> TRUE, key |-> k,
              s |-> spanStart(cs, i, k) - 1, e |-> spanEnd(cs, i, k)]

\* currentLink.selection
linkSelection(link, sel) == Sel(sel.blk, link.s, link.e, sel.hasFocus)

\* The characters auto-linking links: those the strategy detects and no
\* entity covers, in the order of the text.
positions(content) ==
  UNION { { << b, j >> : j \in 1..Len(content[b].chars) } : b \in 1..Len(content) }

linkTargets(content) ==
  { p \in positions(content) :
      /\ content[p[1]].chars[p[2]].ent = 0
      /\ linkStrategy(content[p[1]].chars[p[2]].ch) }

before(p, q) == p[1] < q[1] \/ (p[1] = q[1] /\ p[2] < q[2])

rank(content, p) == Cardinality({ q \in linkTargets(content) : before(q, p) }) + 1

\* A convertLinks that does not skip the spans an entity covers.
convertLinksEverySpan(es, em) ==
  LET T == { p \in positions(es.content) : linkStrategy(es.content[p[1]].chars[p[2]].ch) }
      nr(p) == Cardinality({ q \in T : before(q, p) }) + 1
      at(k) == CHOOSE p \in T : nr(p) = k
  IN [es |-> [es EXCEPT !.content =
                [b \in 1..Len(@) |->
                   [@[b] EXCEPT !.chars =
                      [j \in 1..Len(@) |->
                         IF << b, j >> \in T
                         THEN [@[j] EXCEPT !.ent = Len(em) + nr(<< b, j >>)]
                         ELSE @[j]]]]],
      em |-> em \o [k \in 1..Cardinality(T) |->
                      [href |-> linkifyMatch(es.content[at(k)[1]].chars[at(k)[2]].ch),
                       created |-> "insert"]]]

\* convertLinks(editorState): every detected span that no entity covers gets
\* a new LINK entity with the matched url.
convertLinks(es, em) ==
  LET T == linkTargets(es.content)
      at(k) == CHOOSE p \in T : rank(es.content, p) = k
  IN [es |-> [es EXCEPT !.content =
                [b \in 1..Len(@) |->
                   [@[b] EXCEPT !.chars =
                      [j \in 1..Len(@) |->
                         IF << b, j >> \in T
                         THEN [@[j] EXCEPT !.ent = Len(em) + rank(es.content, << b, j >>)]
                         ELSE @[j]]]]],
      em |-> em \o [k \in 1..Cardinality(T) |->
                      [href |-> linkifyMatch(es.content[at(k)[1]].chars[at(k)[2]].ch),
                       created |-> "insert"]]]

\* ------------------------------------------------------------- state
VARIABLES
  props,        \* this.props: editable, type, convertLinksInline, onlyInline
  editorState,  \* this.state.editorState: the content and the selection
  focus,        \* this.state.focus
  linkState,    \* this.state.linkState
  entityMap,    \* the entity store
  prompts,      \* the link prompts that are open, each with what its
                \* callbacks have captured
  op,           \* the handler that ran last, with its arguments and result
  committed,    \* the values of the revisions the last step passed to setState
  notified,     \* the values the last step delivered to props.onChange
  lastValue,    \* the value delivered last to props.onChange
  events        \* the number of events since the editor was mounted

vars == << props, editorState, focus, linkState, entityMap, prompts, op,
           committed, notified, lastValue, events >>

\* The handler, its argument, what it returned or did, the href entered in
\* the prompt, whether getLink found a link, and whether the selection the
\* handler found was collapsed.
Op(k, a, r, h, l, c) ==
  [kind |-> k, arg |-> a, ret |-> r, href |-> h, hadLink |-> l, collapsed |-> c]

\* The props of the sessions: every combination for an editable editor, the
\* defaults for one that is not.
Configs ==
  { c \in [editable : BOOLEAN, type : Types, convertLinksInline : BOOLEAN,
           onlyInline : BOOLEAN] :
      ~c.editable => (c.convertLinksInline /\ ~c.onlyInline) }

\* A handleEditorChange that leaves the styles as they come.
handleEditorChangeWithoutStyles(es, em) ==
  LET r == IF props.convertLinksInline THEN convertLinks(es, em)
           ELSE [es |-> es, em |-> em]
  IN [es |-> r.es, em |-> r.em, focus |-> es.sel.hasFocus]

\* A handleEditorChange that converts the links whatever the props say.
handleEditorChangeAlwaysLinks(es, em) ==
  LET selectionState == es.sel
      es1 == convertStyles(es, selectionState, ~props.onlyInline)
      r == convertLinks(es1, em)
  IN [es |-> r.es, em |-> r.em, focus |-> selectionState.hasFocus]

\* A handleEditorChange that leaves the focus flag of the constructor.
handleEditorChangeUnfocused(es, em) ==
  LET selectionState == es.sel
      es1 == convertStyles(es, selectionState, ~props.onlyInline)
      r == IF props.convertLinksInline THEN convertLinks(es1, em)
           ELSE [es |-> es1, em |-> em]
  IN [es |-> r.es, em |-> r.em, focus |-> FALSE]

\* The text editor change, up to setState: the focus of the selection, the
\* styles converted, the links converted when the props ask for it.
handleEditorChange(es, em) ==
  LET selectionState == es.sel
      es1 == convertStyles(es, selectionState, ~props.onlyInline)
      r == IF props.convertLinksInline THEN convertLinks(es1, em)
           ELSE [es |-> es1, em |-> em]
  IN [es |-> r.es, em |-> r.em, focus |-> selectionState.hasFocus]

\* The callback of setState: the value of the state as it is when the
\* callback runs goes to props.onChange.
onChangeValue(es, em) == convertContentTo(es.content, props.type, em)

\* One call of handleEditorChange outside a batch of updates: the state is
\* set and the callback runs.
Commit(es, em) ==
  LET r == handleEditorChange(es, em) IN
  /\ events < MaxEvents
  /\ events' = events + 1
  /\ editorState' = r.es
  /\ focus' = r.focus
  /\ entityMap' = r.em
  /\ committed' = << convertContentTo(r.es.content, props.type, r.em) >>
  /\ notified' = << onChangeValue(editorState', entityMap') >>
  /\ lastValue' = notified'[1]

\* A handler that returns without a change.
NoCommit ==
  /\ events < MaxEvents
  /\ events' = events + 1
  /\ UNCHANGED << editorState, focus, entityMap, lastValue >>
  /\ committed' = << >>
  /\ notified' = << >>

\* A constructor that delivers the serialized initial revision to onChange.
InitNotifying ==
  /\ props \in Configs
  /\ \E value \in ValuesOf(props.type) :
       LET c == convertContentFrom(value, props.type, << >>)
           es0 == createWithContent(c.content)
           es1 == convertAllStyles(es0, ~props.onlyInline)
           r == IF props.convertLinksInline THEN convertLinks(es1, c.em)
                ELSE [es |-> es1, em |-> c.em]
       IN /\ editorState = r.es
          /\ entityMap = r.em
          /\ notified = << convertContentTo(r.es.content, props.type, r.em) >>
          /\ lastValue = notified[1]
  /\ focus = FALSE
  /\ linkState = NoLinkState
  /\ prompts = << >>
  /\ op = Op("constructor", "", "", "", FALSE, FALSE)
  /\ committed = << >>
  /\ events = 0

\* The constructor.
Init ==
  /\ props \in Configs
  /\ \E value \in ValuesOf(props.type) :
       LET c == convertContentFrom(value, props.type, << >>)
           es0 == createWithContent(c.content)
           es1 == convertAllStyles(es0, ~props.onlyInline)
           r == IF props.convertLinksInline THEN convertLinks(es1, c.em)
                ELSE [es |-> es1, em |-> c.em]
       IN /\ editorState = r.es
          /\ entityMap = r.em
  /\ focus = FALSE
  /\ linkState = NoLinkState
  /\ prompts = << >>
  /\ op = Op("constructor", "", "", "", FALSE, FALSE)
  /\ committed = << >>
  /\ notified = << >>
  /\ lastValue = Value("none", << >>, << >>)
  /\ events = 0

\* The states the Editor hands to its onChange: the selection moved (the
\* editor then has the focus), the focus lost, a word typed at the cursor,
\* the word before the cursor removed.
EditorEdits(es) ==
  { [es EXCEPT !.sel = x] : x \in { y \in SelectionsOf(es.content) : y.hasFocus } }
  \cup { [es EXCEPT !.sel.hasFocus = FALSE] }
  \cup { push(es, insertText(es.content, es.sel, a, entityForInsert(es.content, es.sel)),
              afterInsert(es.sel)) :
         a \in { x \in TypedAtoms : isCollapsed(es.sel) } }
  \cup { push(es, removeBefore(es.content, es.sel),
              Sel(es.sel.blk, es.sel.s - 1, es.sel.s - 1, es.sel.hasFocus)) :
         x \in { y \in {1} : isCollapsed(es.sel) /\ es.sel.s > 0 } }

\* <Editor onChange={this.handleEditorChange} readOnly={!this.props.editable}>
EditorChange ==
  /\ props.editable
  /\ \E es \in EditorEdits(editorState) :
       /\ Commit(es, entityMap)
       /\ op' = Op("handleEditorChange", "", "", "", FALSE, FALSE)
  /\ UNCHANGED << props, linkState, prompts >>

\* A forceUpdateState that keeps the selection of the state it replaces.
forceUpdateStateKeepingSelection ==
  /\ \E value \in ValuesOf(props.type) :
       LET c == convertContentFrom(value, props.type, entityMap) IN
       /\ Commit(push(editorState, c.content, editorState.sel), c.em)
       /\ op' = Op("forceUpdateState", value.fmt, "", "", FALSE, FALSE)
  /\ UNCHANGED << props, linkState, prompts >>

\* forceUpdateState(props)
forceUpdateState ==
  /\ \E value \in ValuesOf(props.type) :
       LET c == convertContentFrom(value, props.type, entityMap) IN
       /\ Commit(push(editorState, c.content, createEmpty), c.em)
       /\ op' = Op("forceUpdateState", value.fmt, "", "", FALSE, FALSE)
  /\ UNCHANGED << props, linkState, prompts >>

\* Two calls of forceUpdateState with different values in one batch of
\* updates (in an event handler of the host): both states are set before the
\* first callback runs, and both callbacks read the state that was set last.
batchedForceUpdateState ==
  /\ \E v1 \in ValuesOf(props.type) : \E v2 \in ValuesOf(props.type) \ {v1} :
       LET c1 == convertContentFrom(v1, props.type, entityMap)
           r1 == handleEditorChange(push(editorState, c1.content, createEmpty), c1.em)
           c2 == convertContentFrom(v2, props.type, r1.em)
           r2 == handleEditorChange(push(editorState, c2.content, createEmpty), c2.em)
       IN /\ events < MaxEvents
          /\ events' = events + 1
          /\ editorState' = r2.es
          /\ focus' = r2.focus
          /\ entityMap' = r2.em
          /\ committed' = << convertContentTo(r1.es.content, props.type, r1.em),
                             convertContentTo(r2.es.content, props.type, r2.em) >>
          /\ notified' = << onChangeValue(editorState', entityMap'),
                            onChangeValue(editorState', entityMap') >>
          /\ lastValue' = notified'[2]
          /\ op' = Op("batch", "", "", "", FALSE, FALSE)
  /\ UNCHANGED << props, linkState, prompts >>

\* handleKeyCommand without the case of 'split-block' in html.
handleKeyCommandGeneric ==
  /\ props.editable
  /\ \E command \in Commands :
       LET newEditorState == richHandleKeyCommand(editorState, command) IN
       IF newEditorState.handled
       THEN /\ Commit(newEditorState.es, entityMap)
            /\ op' = Op("handleKeyCommand", command, "handled", "", FALSE, FALSE)
       ELSE /\ NoCommit
            /\ op' = Op("handleKeyCommand", command, "not-handled", "", FALSE, FALSE)
  /\ UNCHANGED << props, linkState, prompts >>

\* A handleKeyCommand that stores the split of the block and lets the
\* editor go on with its own handling of the key.
handleKeyCommandSplitUnreported ==
  /\ props.editable
  /\ \E command \in Commands :
       LET newEditorState == richHandleKeyCommand(editorState, command) IN
       IF command = "split-block" /\ props.type = "html"
       THEN /\ Commit(push(editorState,
                           splitBlock(editorState.content, editorState.sel),
                           afterSplit(editorState.sel)),
                      entityMap)
            /\ op' = Op("handleKeyCommand", command, "not-handled", "", FALSE, FALSE)
       ELSE IF newEditorState.handled
       THEN /\ Commit(newEditorState.es, entityMap)
            /\ op' = Op("handleKeyCommand", command, "handled", "", FALSE, FALSE)
       ELSE /\ NoCommit
            /\ op' = Op("handleKeyCommand", command, "not-handled", "", FALSE, FALSE)
  /\ UNCHANGED << props, linkState, prompts >>

\* handleKeyCommand(command)
handleKeyCommand ==
  /\ props.editable
  /\ \E command \in Commands :
       LET newEditorState == richHandleKeyCommand(editorState, command) IN
       IF command = "split-block" /\ props.type = "html"
       THEN /\ Commit(push(editorState,
                           splitBlock(editorState.content, editorState.sel),
                           afterSplit(editorState.sel)),
                      entityMap)
            /\ op' = Op("handleKeyCommand", command, "handled", "", FALSE, FALSE)
       ELSE IF newEditorState.handled
       THEN /\ Commit(newEditorState.es, entityMap)
            /\ op' = Op("handleKeyCommand", command, "handled", "", FALSE, FALSE)
       ELSE /\ NoCommit
            /\ op' = Op("handleKeyCommand", command, "not-handled", "", FALSE, FALSE)
  /\ UNCHANGED << props, linkState, prompts >>

\* handleInlineStyleClick(inlineStyle)
handleInlineStyleClick ==
  /\ IF ~props.editable
     THEN /\ NoCommit
          /\ op' = Op("handleInlineStyleClick", "BOLD", "return", "", FALSE, FALSE)
     ELSE /\ Commit(toggleInlineStyle(editorState), entityMap)
          /\ op' = Op("handleInlineStyleClick", "BOLD", "", "", FALSE, FALSE)
  /\ UNCHANGED << props, linkState, prompts >>

\* handleBlockStyleClick without its test of props.editable.
handleBlockStyleClickUnguarded ==
  /\ \E blockStyle \in ToggleBlockTypes :
       /\ Commit(toggleBlockType(editorState, blockStyle), entityMap)
       /\ op' = Op("handleBlockStyleClick", blockStyle, "", "", FALSE, FALSE)
  /\ UNCHANGED << props, linkState, prompts >>

\* handleBlockStyleClick(blockStyle)
handleBlockStyleClick ==
  /\ \E blockStyle \in ToggleBlockTypes :
       IF ~props.editable
       THEN /\ NoCommit
            /\ op' = Op("handleBlockStyleClick", blockStyle, "return", "", FALSE, FALSE)
       ELSE /\ Commit(toggleBlockType(editorState, blockStyle), entityMap)
            /\ op' = Op("handleBlockStyleClick", blockStyle, "", "", FALSE, FALSE)
  /\ UNCHANGED << props, linkState, prompts >>

\* What the callbacks of an open prompt have captured.
Prompt(a, es, sel, link, title, url) ==
  [action |-> a, es |-> es, sel |-> sel, link |-> link, title |-> title,
   defaultUrl |-> url]

without(seq, i) == SubSeq(seq, 1, i - 1) \o SubSeq(seq, i + 1, Len(seq))

\* handleLinkClick taking the whole link for every selection on a link.
handleLinkClickWholeLink ==
  /\ \E linkAction \in LinkActions :
       LET es == editorState
           currentLink == getLink(es, es.sel)
           selectionState == IF currentLink.found
                             THEN linkSelection(currentLink, es.sel) ELSE es.sel
           isLink == currentLink.found /\ linkAction # "ADD"
           title == IF isLink THEN "Edit Link" ELSE "Add Link"
           defaultUrl == IF isLink THEN entityMap[currentLink.key].href ELSE ""
       IN IF ~props.editable
          THEN /\ NoCommit
               /\ UNCHANGED prompts
               /\ op' = Op("handleLinkClick", linkAction, "return", "", FALSE, FALSE)
          ELSE IF linkAction = "DELETE"
          THEN /\ Commit(toggleLink(es, selectionState, 0), entityMap)
               /\ UNCHANGED prompts
               /\ op' = Op("handleLinkClick", linkAction, "", "", currentLink.found,
                           isCollapsed(es.sel))
          ELSE /\ NoCommit
               /\ prompts' = Append(prompts,
                                    Prompt(linkAction, es, selectionState,
                                           currentLink, title, defaultUrl))
               /\ op' = Op("handleLinkClick", linkAction, "open", "", currentLink.found,
                           isCollapsed(es.sel))
  /\ UNCHANGED << props, linkState >>

\* A handleLinkClick whose DELETE also takes the record of the link out of
\* the entity store.
handleLinkClickDroppingEntity ==
  /\ \E linkAction \in LinkActions :
       LET es == editorState
           currentLink == getLink(es, es.sel)
           selectionState == IF currentLink.found /\ isCollapsed(es.sel)
                             THEN linkSelection(currentLink, es.sel) ELSE es.sel
           isLink == currentLink.found /\ linkAction # "ADD"
           title == IF isLink THEN "Edit Link" ELSE "Add Link"
           defaultUrl == IF isLink THEN entityMap[currentLink.key].href ELSE ""
       IN IF ~props.editable
          THEN /\ NoCommit
               /\ UNCHANGED prompts
               /\ op' = Op("handleLinkClick", linkAction, "return", "", FALSE, FALSE)
          ELSE IF linkAction = "DELETE"
          THEN /\ Commit(toggleLink(es, selectionState, 0),
                         IF currentLink.found /\ currentLink.key = Len(entityMap)
                         THEN SubSeq(entityMap, 1, Len(entityMap) - 1) ELSE entityMap)
               /\ UNCHANGED prompts
               /\ op' = Op("handleLinkClick", linkAction, "", "", currentLink.found,
                           isCollapsed(es.sel))
          ELSE /\ NoCommit
               /\ prompts' = Append(prompts,
                                    Prompt(linkAction, es, selectionState,
                                           currentLink, title, defaultUrl))
               /\ op' = Op("handleLinkClick", linkAction, "open", "", currentLink.found,
                           isCollapsed(es.sel))
  /\ UNCHANGED << props, linkState >>

\* handleLinkClick(linkAction), up to the opening of the prompt.
handleLinkClick ==
  /\ \E linkAction \in LinkActions :
       LET es == editorState
           currentLink == getLink(es, es.sel)
           selectionState == IF currentLink.found /\ isCollapsed(es.sel)
                             THEN linkSelection(currentLink, es.sel) ELSE es.sel
           isLink == currentLink.found /\ linkAction # "ADD"
           title == IF isLink THEN "Edit Link" ELSE "Add Link"
           defaultUrl == IF isLink THEN entityMap[currentLink.key].href ELSE ""
       IN IF ~props.editable
          THEN /\ NoCommit
               /\ UNCHANGED prompts
               /\ op' = Op("handleLinkClick", linkAction, "return", "", FALSE, FALSE)
          ELSE IF linkAction = "DELETE"
          THEN /\ Commit(toggleLink(es, selectionState, 0), entityMap)
               /\ UNCHANGED prompts
               /\ op' = Op("handleLinkClick", linkAction, "", "", currentLink.found,
                           isCollapsed(es.sel))
          ELSE /\ NoCommit
               /\ prompts' = Append(prompts,
                                    Prompt(linkAction, es, selectionState,
                                           currentLink, title, defaultUrl))
               /\ op' = Op("handleLinkClick", linkAction, "open", "", currentLink.found,
                           isCollapsed(es.sel))
  /\ UNCHANGED << props, linkState >>

\* A confirmation that writes the href into the entity of the link found.
linkConfirmedInPlace(p, enteredHref, em) ==
  IF trim(enteredHref) # ""
  THEN LET links == linkifyMatch(enteredHref)
           newHref == IF links # "null" THEN links ELSE enteredHref
           em1 == Append(em, [href |-> newHref, created |-> "insert"])
           entityKey == Len(em1)
       IN IF p.link.found
          THEN [es |-> p.es, em |-> [em EXCEPT ![p.link.key].href = newHref]]
          ELSE IF isCollapsed(p.sel)
          THEN [es |-> push(p.es, insertText(p.es.content, p.sel, newHref, entityKey), p.sel),
                em |-> em1]
          ELSE [es |-> toggleLink(p.es, p.sel, entityKey), em |-> em1]
  ELSE [es |-> toggleLink(p.es, p.sel, 0), em |-> em]

\* A confirmation that takes an href linkify does not match for an empty one.
linkConfirmedMatchedOnly(p, enteredHref, em) ==
  IF trim(enteredHref) # "" /\ linkifyMatch(enteredHref) # "null"
  THEN LET newHref == linkifyMatch(enteredHref)
           em1 == Append(em, [href |-> newHref, created |-> "insert"])
           entityKey == Len(em1)
           es1 == IF p.link.found THEN toggleLink(p.es, p.sel, 0) ELSE p.es
           es2 == IF isCollapsed(p.sel)
                  THEN push(es1, insertText(p.es.content, p.sel, newHref, entityKey),
                            afterInsert(p.sel))
                  ELSE push(es1, p.es.content, p.es.sel)
       IN [es |-> toggleLink(es2, p.sel, entityKey), em |-> em1]
  ELSE [es |-> toggleLink(p.es, p.sel, 0), em |-> em]

\* A confirmation that does nothing for an action other than ADD when no
\* link was found.
linkConfirmedEditNeedsLink(p, enteredHref, em) ==
  IF p.action # "ADD" /\ ~p.link.found
  THEN [es |-> p.es, em |-> em]
  ELSE IF trim(enteredHref) # ""
  THEN LET links == linkifyMatch(enteredHref)
           newHref == IF links # "null" THEN links ELSE enteredHref
           em1 == Append(em, [href |-> newHref, created |-> "insert"])
           entityKey == Len(em1)
           es1 == IF p.link.found THEN toggleLink(p.es, p.sel, 0) ELSE p.es
           es2 == IF isCollapsed(p.sel)
                  THEN push(es1, insertText(p.es.content, p.sel, newHref, entityKey),
                            afterInsert(p.sel))
                  ELSE push(es1, p.es.content, p.es.sel)
       IN [es |-> toggleLink(es2, p.sel, entityKey), em |-> em1]
  ELSE [es |-> toggleLink(p.es, p.sel, 0), em |-> em]

\* The revision and the entity store the confirmation of a prompt hands to
\* handleEditorChange, the href entered being enteredHref.
linkConfirmed(p, enteredHref, em) ==
  IF trim(enteredHref) # ""
  THEN LET links == linkifyMatch(enteredHref)
           newHref == IF links # "null" THEN links ELSE enteredHref
           em1 == Append(em, [href |-> newHref, created |-> "insert"])
           entityKey == Len(em1)
           es1 == IF p.link.found THEN toggleLink(p.es, p.sel, 0) ELSE p.es
           es2 == IF isCollapsed(p.sel)
                  THEN push(es1, insertText(p.es.content, p.sel, newHref, entityKey),
                            afterInsert(p.sel))
                  ELSE push(es1, p.es.content, p.es.sel)
       IN [es |-> toggleLink(es2, p.sel, entityKey), em |-> em1]
  ELSE [es |-> toggleLink(p.es, p.sel, 0), em |-> em]

\* The prompt is confirmed: LinkModal reports the href it holds to
\* handleLinkChange, and the promise of ModalActions.open is fulfilled.
PromptConfirm ==
  /\ \E i \in 1..Len(prompts), h \in EnteredHrefs :
       LET p == prompts[i]
           r == linkConfirmed(p, h, entityMap)
       IN /\ linkState' = [set |-> TRUE, href |-> h]
          /\ Commit(r.es, r.em)
          /\ prompts' = without(prompts, i)
          /\ op' = Op("confirm", p.action, "", h, p.link.found, isCollapsed(p.es.sel))
  /\ UNCHANGED props

\* A dismissal that hands the captured state to handleEditorChange.
PromptCancelCommits ==
  /\ \E i \in 1..Len(prompts) :
       LET p == prompts[i] IN
       /\ Commit(p.es, entityMap)
       /\ prompts' = without(prompts, i)
       /\ op' = Op("cancel", p.action, "", "", p.link.found, isCollapsed(p.es.sel))
  /\ UNCHANGED << props, linkState >>

\* The prompt is dismissed: the promise is rejected.
PromptCancel ==
  /\ \E i \in 1..Len(prompts) :
       LET p == prompts[i] IN
       /\ NoCommit
       /\ prompts' = without(prompts, i)
       /\ op' = Op("cancel", p.action, "", "", p.link.found, isCollapsed(p.es.sel))
  /\ UNCHANGED << props, linkState >>

Next ==
  \/ EditorChange
  \/ forceUpdateState
  \/ batchedForceUpdateState
  \/ handleKeyCommand
  \/ handleInlineStyleClick
  \/ handleBlockStyleClick
  \/ handleLinkClick
  \/ PromptConfirm
  \/ PromptCancel

Spec == Init /\ [][Next]_vars

\* ------------------------------------------------------------- claims
\* The prompt a step resolves.
Resolved == prompts[CHOOSE i \in 1..Len(prompts) : prompts' = without(prompts, i)]

\* The revisions among cs that differ from the value delivered before them.
RECURSIVE materialChanges(_, _)
materialChanges(cs, last) ==
  IF cs = << >> THEN << >>
  ELSE IF Head(cs) = last THEN materialChanges(Tail(cs), last)
  ELSE << Head(cs) >> \o materialChanges(Tail(cs), Head(cs))

\* C1: props.onChange is called once for every revision passed to
\* handleEditorChange whose serialized content differs from the value
\* delivered last, and not at all for a revision of the same content
\* (stated for the steps that commit one revision at a time).
C1_OnChangeOncePerChange ==
  [][op'.kind # "batch" => notified' = materialChanges(committed', lastValue)]_vars

\* C2: the k-th call of props.onChange carries the k-th revision that was
\* committed, also when two revisions are committed in one batch of updates,
\* and no call carries the content of the call before it.
C2_NotificationsOrdered ==
  [][/\ notified' = committed'
     /\ \A k \in 1..Len(notified') :
          notified'[k] # (IF k = 1 THEN lastValue ELSE notified'[k - 1])]_vars

\* C3: with props.editable false the style, block and link handlers change
\* nothing: not the revision, the focus, the entities, the prompts, and
\* props.onChange is not called; with props.editable true a toggle hands one
\* revision, the toggled one, to handleEditorChange.
C3_NonEditableNoOp ==
  [][/\ (~props.editable
          /\ op'.kind \in {"handleInlineStyleClick", "handleBlockStyleClick",
                           "handleLinkClick"})
        => /\ UNCHANGED << editorState, focus, entityMap, prompts, linkState, lastValue >>
           /\ notified' = << >>
           /\ committed' = << >>
     /\ (props.editable /\ op'.kind = "handleInlineStyleClick")
        => LET r == handleEditorChange(toggleInlineStyle(editorState), entityMap) IN
           /\ editorState' = r.es
           /\ focus' = r.focus
           /\ Len(committed') = 1
           /\ Len(notified') = 1
     /\ (props.editable /\ op'.kind = "handleBlockStyleClick")
        => LET r == handleEditorChange(toggleBlockType(editorState, op'.arg), entityMap) IN
           /\ editorState' = r.es
           /\ focus' = r.focus
           /\ Len(committed') = 1
           /\ Len(notified') = 1]_vars

\* A link button was clicked in an editor that is not editable.
C3_Witness ==
  ~props.editable /\ op.kind = "handleLinkClick" /\ op.arg = "EDIT" /\ op.ret = "return"

\* C4: a dismissed prompt changes nothing and calls props.onChange not at
\* all, whereas a prompt on a link confirmed with an empty href commits a
\* revision in which the characters of the selection have lost their link.
C4_CancelChangesNothing ==
  [][/\ op'.kind = "cancel"
        => /\ UNCHANGED << editorState, focus, entityMap, linkState, lastValue >>
           /\ notified' = << >>
           /\ committed' = << >>
     /\ (op'.kind = "confirm" /\ trim(op'.href) = "" /\ op'.hadLink)
        => LET p == Resolved IN
           /\ Len(notified') = 1
           /\ \A i \in (p.sel.s + 1)..p.sel.e :
                editorState'.content[p.sel.blk].chars[i].ent \notin 1..Len(entityMap)]_vars

\* The prompt of an EDIT on a link was dismissed.
C4_Witness ==
  op.kind = "cancel" /\ op.arg = "EDIT" /\ op.hadLink

\* The characters of a selection.
SelChars(sel) == (sel.s + 1)..sel.e

\* Two contents of the same text.
SameText(c1, c2) ==
  /\ Len(c1) = Len(c2)
  /\ \A b \in 1..Len(c1) :
       /\ Len(c1[b].chars) = Len(c2[b].chars)
       /\ \A j \in 1..Len(c1[b].chars) : c1[b].chars[j].ch = c2[b].chars[j].ch

\* The href stored for an href entered.
storedHref(h) == IF linkifyMatch(h) # "null" THEN linkifyMatch(h) ELSE h

\* A step that confirms a prompt of action a with an href that is not empty.
ConfirmedWithHref(a) ==
  op'.kind = "confirm" /\ op'.arg = a /\ trim(op'.href) # ""

\* A step of handleLinkClick('DELETE') in an editable editor.
Deleted == op'.kind = "handleLinkClick" /\ op'.arg = "DELETE" /\ op'.ret = ""

C6_DeleteRemovesWholeLink ==
  [][(Deleted /\ op'.hadLink /\ op'.collapsed)
     => LET link == getLink(editorState, editorState.sel) IN
        /\ \A i \in (link.s + 1)..link.e :
             editorState'.content[editorState.sel.blk].chars[i].ent = 0
        /\ SameText(editorState'.content, editorState.content)]_vars

C8_EditEmptyIsDelete ==
  [][(op'.kind = "confirm" /\ op'.arg = "EDIT" /\ trim(op'.href) = "")
     => LET p == Resolved
            d == handleEditorChange(toggleLink(p.es, p.sel, 0), entityMap)
        IN /\ editorState' = d.es
           /\ entityMap' = entityMap]_vars

\* C9 as stated: a prompt confirmed with an href that is empty or that
\* linkify does not match leaves the characters of the selection without
\* entity and creates no entity of that href.
C9_InvalidHrefDeletes ==
  [][(op'.kind = "confirm" /\ (trim(op'.href) = "" \/ linkifyMatch(op'.href) = "null"))
     => LET p == Resolved IN
        /\ \A i \in SelChars(p.sel) :
             editorState'.content[p.sel.blk].chars[i].ent = 0
        /\ \A k \in (Len(entityMap) + 1)..Len(entityMap') :
             entityMap'[k].href # op'.href]_vars

\* C9 amended: a prompt confirmed with an empty href or with blanks takes
\* the entities there were off the characters of the selection, and every
\* entity of the step is one of auto-linking; a prompt confirmed with an href
\* linkify does not match creates an entity of the href as entered and links
\* the selection, or the href inserted at the cursor, to it.
C9_UnmatchedHrefLinks ==
  [][(op'.kind = "confirm" /\ (trim(op'.href) = "" \/ linkifyMatch(op'.href) = "null"))
     => LET p == Resolved
            k == Len(entityMap) + 1
            ds == editorState'.content[p.sel.blk].chars
        IN IF trim(op'.href) = ""
           THEN /\ \A i \in SelChars(p.sel) : ds[i].ent \notin 1..Len(entityMap)
                /\ \A j \in 1..Len(entityMap) : entityMap'[j] = entityMap[j]
                /\ \A j \in k..Len(entityMap') :
                     /\ props.convertLinksInline
                     /\ \E q \in positions(editorState'.content) :
                          /\ editorState'.content[q[1]].chars[q[2]].ent = j
                          /\ linkifyMatch(editorState'.content[q[1]].chars[q[2]].ch)
                               = entityMap'[j].href
           ELSE /\ Len(entityMap') >= k
                /\ entityMap'[k] = [href |-> op'.href, created |-> "insert"]
                /\ IF isCollapsed(p.sel)
                   THEN ds[p.sel.s + 1].ch = op'.href /\ ds[p.sel.s + 1].ent = k
                   ELSE \A i \in SelChars(p.sel) : ds[i].ent = k]_vars

\* A prompt was confirmed with an href linkify does not match, and a
\* character is linked to an entity of that href.
C9_Witness ==
  /\ op.kind = "confirm" /\ op.href = "w"
  /\ \E q \in positions(editorState.content) :
       LET c == editorState.content[q[1]].chars[q[2]] IN
       c.ent # 0 /\ entityMap[c.ent].href = "w"

\* C10 as stated: an ADD confirmed with an href, the cursor anywhere, also
\* in a link, inserts the href at the cursor and links the inserted text, and
\* nothing else, to one new entity.
C10_AddInsertsAtEveryCursor ==
  [][(ConfirmedWithHref("ADD") /\ op'.collapsed)
     => LET p == Resolved
            k == Len(entityMap) + 1
            at == p.es.sel.s + 1
            cs == p.es.content[p.sel.blk].chars
            ds == editorState'.content[p.sel.blk].chars
        IN /\ Len(ds) = Len(cs) + 1
           /\ ds[at].ch = storedHref(op'.href)
           /\ \A q \in positions(editorState'.content) :
                editorState'.content[q[1]].chars[q[2]].ent = k <=> q = << p.sel.blk, at >>]_vars

\* C10 amended: an ADD confirmed with an href, the cursor not in a link,
\* inserts the href as it is stored at the cursor and links the inserted text,
\* and nothing else, to one new entity {href, created: "insert"}, the text
\* around it being the text of the revision the action was started on; with
\* the cursor in a link nothing is inserted and the characters of the link
\* are linked to the new entity.
C10_AddInsertsOutsideLinks ==
  [][(ConfirmedWithHref("ADD") /\ op'.collapsed)
     => LET p == Resolved
            k == Len(entityMap) + 1
            at == p.es.sel.s + 1
            cs == p.es.content[p.sel.blk].chars
            ds == editorState'.content[p.sel.blk].chars
        IN /\ Len(entityMap') >= k
           /\ entityMap'[k] = [href |-> storedHref(op'.href), created |-> "insert"]
           /\ IF op'.hadLink
              THEN /\ SameText(editorState'.content, p.es.content)
                   /\ at \in SelChars(p.sel)
                   /\ \A q \in positions(editorState'.content) :
                        editorState'.content[q[1]].chars[q[2]].ent = k
                          <=> (q[1] = p.sel.blk /\ q[2] \in SelChars(p.sel))
              ELSE /\ Len(ds) = Len(cs) + 1
                   /\ ds[at].ch = storedHref(op'.href)
                   /\ \A i \in 1..Len(cs) :
                        cs[i].ch = ds[IF i < at THEN i ELSE i + 1].ch
                   /\ \A b \in (1..Len(p.es.content)) \ {p.sel.blk} :
                        SameText(<< editorState'.content[b] >>, << p.es.content[b] >>)
                   /\ Len(editorState'.content) = Len(p.es.content)
                   /\ \A q \in positions(editorState'.content) :
                        editorState'.content[q[1]].chars[q[2]].ent = k
                          <=> q = << p.sel.blk, at >>]_vars

\* An ADD with the cursor outside every link was confirmed with "n.co": the
\* text after the cursor is the href stored, linked to the youngest entity.
C10_Witness ==
  /\ op.kind = "confirm" /\ op.arg = "ADD" /\ op.collapsed /\ ~op.hadLink
  /\ op.href = "n.co"
  /\ isCollapsed(editorState.sel)
  /\ editorState.sel.s < Len(editorState.content[editorState.sel.blk].chars)
  /\ LET c == editorState.content[editorState.sel.blk].chars[editorState.sel.s + 1] IN
     c.ch = "http://n.co" /\ c.ent # 0 /\ entityMap[c.ent].created = "insert"

\* C11: an ADD confirmed with an href on a range leaves the text of every
\* block as it was when the action was started, links the characters of the
\* range, and no others, to one new entity, and leaves every character
\* outside the range with the entity it had.
C11_AddOnRangeLinksRange ==
  [][(ConfirmedWithHref("ADD") /\ ~op'.collapsed)
     => LET p == Resolved
            k == Len(entityMap) + 1
        IN /\ p.sel = p.es.sel
           /\ SelChars(p.sel) # {}
           /\ SameText(editorState'.content, p.es.content)
           /\ entityMap' = Append(entityMap, [href |-> storedHref(op'.href),
                                              created |-> "insert"])
           /\ \A q \in positions(p.es.content) :
                editorState'.content[q[1]].chars[q[2]].ent
                  = IF q[1] = p.sel.blk /\ q[2] \in SelChars(p.sel)
                    THEN k ELSE p.es.content[q[1]].chars[q[2]].ent]_vars

\* An ADD on a range that leaves a part of the block out was confirmed with
\* "n.co": the range is linked to the youngest entity, a character after it
\* is not.
C11_Witness ==
  /\ op.kind = "confirm" /\ op.arg = "ADD" /\ ~op.collapsed /\ op.href = "n.co"
  /\ SelChars(editorState.sel) # {}
  /\ \A i \in SelChars(editorState.sel) :
       editorState.content[editorState.sel.blk].chars[i].ent = Len(entityMap)
  /\ entityMap[Len(entityMap)] = [href |-> "http://n.co", created |-> "insert"]
  /\ \E i \in 1..Len(editorState.content[editorState.sel.blk].chars) :
       /\ i \notin SelChars(editorState.sel)
       /\ editorState.content[editorState.sel.blk].chars[i].ent # Len(entityMap)

\* C12: DELETE where getLink finds no link changes nothing: the content, the
\* entities of the characters and the entity table stay as they are, and
\* props.onChange is not called.
C12_DeleteWithoutLinkIsNoOp ==
  [][(Deleted /\ ~op'.hadLink)
     => /\ editorState'.content = editorState.content
        /\ entityMap' = entityMap
        /\ notified' = << >>]_vars

\* C13: EDIT, or an action handleLinkClick does not know, where getLink
\* finds no link opens the prompt ADD opens, titled "Add Link" with an empty
\* url, and its confirmation stores what the confirmation of ADD stores from
\* the same revision and selection; where getLink finds a link the prompt is
\* titled "Edit Link" and its url is the href of that link.
C13_EditWithoutLinkIsAdd ==
  [][/\ (op'.kind = "handleLinkClick" /\ op'.ret = "open" /\ op'.arg \in {"EDIT", "OTHER"})
        => LET p == prompts'[Len(prompts')]
               link == getLink(editorState, editorState.sel)
           IN /\ prompts' = Append(prompts, p)
              /\ p.action = op'.arg
              /\ p.es = editorState
              /\ IF link.found
                 THEN /\ p.title = "Edit Link"
                      /\ p.defaultUrl = entityMap[link.key].href
                      /\ \E i \in SelChars(p.sel) :
                           editorState.content[p.sel.blk].chars[i].ent = link.key
                 ELSE /\ p.title = "Add Link"
                      /\ p.defaultUrl = ""
                      /\ p.sel = editorState.sel
     /\ (op'.kind = "confirm" /\ op'.arg \in {"EDIT", "OTHER"} /\ ~op'.hadLink)
        => LET p == Resolved
               add == linkConfirmed([p EXCEPT !.action = "ADD"], op'.href, entityMap)
               r == handleEditorChange(add.es, add.em)
           IN /\ p.title = "Add Link"
              /\ editorState' = r.es
              /\ entityMap' = r.em
              /\ focus' = r.focus]_vars

\* An EDIT started where there was no link was confirmed with "n.co", and
\* the text at the cursor is linked to the new entity.
C13_Witness ==
  /\ op.kind = "confirm" /\ op.arg = "EDIT" /\ ~op.hadLink /\ op.href = "n.co"
  /\ \E q \in positions(editorState.content) :
       editorState.content[q[1]].chars[q[2]].ent = Len(entityMap)
  /\ Len(entityMap) > 0
  /\ entityMap[Len(entityMap)] = [href |-> "http://n.co", created |-> "insert"]

\* C14: while a prompt is open nothing but its confirmation or dismissal
\* changes the stored revision, and no second prompt is opened.
C14_NoEditsWhilePromptPending ==
  [][(prompts # << >> /\ op'.kind \notin {"confirm", "cancel"})
     => (editorState' = editorState /\ prompts' = prompts)]_vars

\* C15: with type 'html' handleKeyCommand('split-block') returns 'handled'
\* and commits a revision with one block more: the block of the selection
\* ends at the start of the selection, a new block after it holds what
\* followed the selection, and the cursor is at the start of the new block;
\* with another type the command returns what RichUtils.handleKeyCommand
\* gives, and 'not-handled' leaves the revision alone.
C15_SplitBlockInHtml ==
  [][(op'.kind = "handleKeyCommand" /\ op'.arg = "split-block")
     => LET sel == editorState.sel
            c == editorState.content
            d == editorState'.content
            rich == richHandleKeyCommand(editorState, "split-block")
        IN IF props.type = "html"
           THEN /\ op'.ret = "handled"
                /\ Len(committed') = 1
                /\ Len(d) = Len(c) + 1
                /\ d[sel.blk].chars = SubSeq(c[sel.blk].chars, 1, sel.s)
                /\ d[sel.blk + 1].chars
                     = SubSeq(c[sel.blk].chars, sel.e + 1, Len(c[sel.blk].chars))
                /\ d[sel.blk + 1].type = d[sel.blk].type
                /\ \A b \in 1..Len(c) :
                     b # sel.blk => d[IF b < sel.blk THEN b ELSE b + 1].chars = c[b].chars
                /\ editorState'.sel = Sel(sel.blk + 1, 0, 0, sel.hasFocus)
           ELSE /\ op'.ret = (IF rich.handled THEN "handled" ELSE "not-handled")
                /\ ~rich.handled
                     => (UNCHANGED << editorState, focus, entityMap >>
                         /\ committed' = << >>)]_vars

\* 'split-block' was handled in html with the cursor inside the text: the
\* block before the cursor and the new block both have text.
C15_Witness ==
  /\ props.type = "html"
  /\ op.kind = "handleKeyCommand" /\ op.arg = "split-block" /\ op.ret = "handled"
  /\ editorState.sel.blk > 1
  /\ Len(editorState.content[editorState.sel.blk - 1].chars) > 0
  /\ Len(editorState.content[editorState.sel.blk].chars) > 0

\* C16: with onlyInline every block of the stored revision is of the default
\* type, in every state from the mount on, and so is every block of a value
\* handed to props.onChange.
C16_OnlyInlineHasNoBlockStyles ==
  props.onlyInline
    => /\ \A b \in 1..Len(editorState.content) : editorState.content[b].type = "unstyled"
       /\ \A k \in 1..Len(notified) :
            \A b \in 1..Len(notified[k].blocks) : notified[k].blocks[b].type = "unstyled"

\* With onlyInline the block button of the header was clicked in an editable
\* editor, and the revision was committed.
C16_Witness ==
  /\ props.onlyInline
  /\ op.kind = "handleBlockStyleClick" /\ op.arg = "header-one" /\ op.ret = ""
  /\ Len(notified) = 1
  /\ editorState.content[editorState.sel.blk].type = "unstyled"

\* C17: convertLinks run on its own result gives that result again; with
\* convertLinksInline the stored revision is such a result, so that handing
\* it to handleEditorChange once more, under whatever selection, creates no
\* entity and leaves every character with the entity it has.
C17_AutoLinkingReentrant ==
  LET once == convertLinks(editorState, entityMap)
      twice == convertLinks(once.es, once.em)
  IN /\ twice = once
     /\ props.convertLinksInline
          => /\ once = [es |-> editorState, em |-> entityMap]
             /\ \A sel \in SelectionsOf(editorState.content) :
                  LET r == handleEditorChange([editorState EXCEPT !.sel = sel], entityMap) IN
                  r.em = entityMap /\ r.es.content = editorState.content

\* With convertLinksInline a change of the editor was committed, and a URL
\* of the text is linked to an entity auto-linking has created for it.
C17_Witness ==
  /\ props.convertLinksInline
  /\ op.kind = "handleEditorChange"
  /\ \E q \in positions(editorState.content) :
       LET c == editorState.content[q[1]].chars[q[2]] IN
       /\ c.ent # 0
       /\ entityMap[c.ent] = [href |-> linkifyMatch(c.ch), created |-> "insert"]

UsedKeys(content) ==
  { content[q[1]].chars[q[2]].ent : q \in positions(content) } \ {0}

\* The revision and the entity table the pipeline of handleEditorChange
\* makes of a revision: the styles converted, then, if the props ask for it,
\* the links.
Pipeline(es, em) ==
  LET es1 == convertStyles(es, es.sel, ~props.onlyInline) IN
  IF props.convertLinksInline THEN convertLinks(es1, em) ELSE [es |-> es1, em |-> em]

C20_ForceUpdateStateStoresConversion ==
  [][op'.kind = "forceUpdateState"
     => \E value \in ValuesOf(props.type) :
          LET c == convertContentFrom(value, props.type, entityMap)
              r == Pipeline(EState(c.content, createEmpty), c.em)
              c0 == convertContentFrom(value, props.type, << >>)
              r0 == Pipeline(createWithContent(c0.content), c0.em)
          IN /\ op'.arg = value.fmt
             /\ editorState' = r.es
             /\ entityMap' = r.em
             /\ focus' = FALSE
             /\ notified' = << convertContentTo(r0.es.content, props.type, r0.em) >>
             /\ committed' = notified'
             /\ SameText(editorState'.content, r0.es.content)
             /\ \A b \in 1..Len(r0.es.content) :
                  editorState'.content[b].type = r0.es.content[b].type
             /\ value = Falsy => editorState'.content = << Block("unstyled", << >>) >>]_vars

\* forceUpdateState was called with a falsy value, after another event, on
\* an editor whose entity table is not empty: one empty block is stored.
C20_Witness ==
  /\ op.kind = "forceUpdateState" /\ op.arg = "falsy"
  /\ Len(entityMap) > 0
  /\ events > 1
  /\ editorState = EState(<< Block("unstyled", << >>) >>, createEmpty)
  /\ Len(notified) = 1

\* ------------------------------------------------------------- every type
\* The editor under every type of the props and under values that are not
\* of the type: the constructor and forceUpdateState can throw.
AllTypes == {"html", "json", "text", "Immutable"}

\* A value that is not a raw content: a string that is no JSON, an object
\* without blocks or entityMap.
Malformed == Value("malformed", << >>, << >>)

\* A string of text.
StringValue ==
  Value("string", << Block("unstyled", << VChar("w", FALSE, -1, "") >>) >>, << >>)

\* A ContentState the host has built: a header, its first word bold.
ContentStateValue ==
  Value("ContentState",
        << Block("header-one", << VChar("w", TRUE, 0, ""), VChar("n.co", FALSE, 0, "") >>) >>,
        << >>)

\* The values the host supplies under a type, those included that are not
\* of the type.  Markup however broken is a string the html parser reads; it
\* stands here as what the parser makes of it.
AllValuesOf(type) ==
  IF type = "json" THEN ValuesOf("json") \cup {Malformed}
  ELSE IF type = "html" THEN ValuesOf("html")
  ELSE {Falsy, StringValue, ContentStateValue}

\* Whether the conversion of a value, or the EditorState made of its result,
\* throws: convertFromRaw reads the blocks and the entityMap of its argument,
\* and EditorState.createWithContent and EditorState.push need a ContentState.
conversionThrows(value, type) ==
  IF value.fmt = "falsy" THEN FALSE
  ELSE IF type = "json" THEN value.fmt # "json"
  ELSE IF type = "html" THEN value.fmt # "html"
  ELSE value.fmt # "ContentState"

AllConfigs ==
  [editable : {TRUE}, type : AllTypes, convertLinksInline : BOOLEAN, onlyInline : BOOLEAN]

\* The constructor, which ends in an exception when the conversion throws:
\* no component is mounted then.
InitOfAny ==
  /\ props \in AllConfigs
  /\ \E value \in AllValuesOf(props.type) :
       IF conversionThrows(value, props.type)
       THEN /\ editorState = createWithContent(createFromText)
            /\ entityMap = << >>
            /\ op = Op("constructor", value.fmt, "throws", "", FALSE, FALSE)
       ELSE LET c == convertContentFrom(value, props.type, << >>)
                es0 == createWithContent(c.content)
                es1 == convertAllStyles(es0, ~props.onlyInline)
                r == IF props.convertLinksInline THEN convertLinks(es1, c.em)
                     ELSE [es |-> es1, em |-> c.em]
            IN /\ editorState = r.es
               /\ entityMap = r.em
               /\ op = Op("constructor", value.fmt, "", "", FALSE, FALSE)
  /\ focus = FALSE
  /\ linkState = NoLinkState
  /\ prompts = << >>
  /\ committed = << >>
  /\ notified = << >>
  /\ lastValue = Value("none", << >>, << >>)
  /\ events = 0

\* A component is mounted.
Mounted == ~(op.kind = "constructor" /\ op.ret = "throws")

\* forceUpdateState(props) under every value: the exception of the
\* conversion leaves the handler before handleEditorChange is called.
forceUpdateStateOfAny ==
  /\ Mounted
  /\ \E value \in AllValuesOf(props.type) :
       IF conversionThrows(value, props.type)
       THEN /\ NoCommit
            /\ op' = Op("forceUpdateState", value.fmt, "throws", "", FALSE, FALSE)
       ELSE LET c == convertContentFrom(value, props.type, entityMap) IN
            /\ Commit(push(editorState, c.content, createEmpty), c.em)
            /\ op' = Op("forceUpdateState", value.fmt, "", "", FALSE, FALSE)
  /\ UNCHANGED << props, linkState, prompts >>

EditorChangeOfAny == Mounted /\ EditorChange

handleKeyCommandOfAny == Mounted /\ handleKeyCommand

NextOfAny ==
  \/ forceUpdateStateOfAny
  \/ EditorChangeOfAny
  \/ handleKeyCommandOfAny

SpecOfAny == InitOfAny /\ [][NextOfAny]_vars

\* C21: the conversion of props.value never throws, whatever the value and
\* the type: the constructor and forceUpdateState end with a document of at
\* least one block.
C21_ConversionNeverThrows ==
  op.kind \in {"constructor", "forceUpdateState"}
    => (op.ret # "throws" /\ Len(editorState.content) >= 1)

\* C22: entity records are never deleted and their keys are stable: every
\* key a character refers to is a key of the entity store, and every step
\* (edit, ADD, EDIT, DELETE, confirm with an empty href, cancel) leaves each
\* record of the store in place under its key; DELETE leaves the record of
\* the link it removed in the store.
C22_EntitiesNeverDeleted ==
  /\ UsedKeys(editorState.content) \subseteq 1..Len(entityMap)
  /\ [][/\ Len(entityMap') >= Len(entityMap)
        /\ \A k \in 1..Len(entityMap) : entityMap'[k] = entityMap[k]
        /\ UsedKeys(editorState'.content) \subseteq 1..Len(entityMap')]_vars

\* Reached: DELETE on a link has left a record no character refers to.
C22_Witness ==
  /\ op.kind = "handleLinkClick" /\ op.arg = "DELETE" /\ op.ret = "" /\ op.hadLink
  /\ \E k \in 1..Len(entityMap) : k \notin UsedKeys(editorState.content)

\* What a reader of a document sees of it: the blocks with their types, and
\* of every character its text, its style and the record of its entity.
Shown(content, em) ==
  [b \in 1..Len(content) |->
     Block(content[b].type,
           [j \in 1..Len(content[b].chars) |->
              LET c == content[b].chars[j] IN
              [ch |-> c.ch, bold |-> c.bold,
               link |-> IF c.ent = 0 THEN << >> ELSE << em[c.ent] >>]])]

\* The stored document after an editor of the same props is mounted on a
\* json value, the entity store holding em.
MountedOn(value, em) ==
  LET c == convertFromRaw(value, em)
      es1 == convertAllStyles(createWithContent(c.content), ~props.onlyInline)
  IN IF props.convertLinksInline THEN convertLinks(es1, c.em)
     ELSE [es |-> es1, em |-> c.em]

\* The stores a json value can be read back into: an empty one, the one of
\* the session.
StoresAtRead == {<< >>, entityMap}

C24_TextDeliversString ==
  (props.type = "text" /\ Len(notified) = 1) => notified[1].fmt = "string"

\* C25: handleKeyCommand returns 'handled' exactly when it has handed one
\* revision to handleEditorChange, and 'not-handled' exactly when it has left
\* the stored revision and the focus flag as they were and nothing was
\* delivered; every command returns one of the two.
C25_HandledIffCommitted ==
  [][op'.kind = "handleKeyCommand" =>
       /\ op'.ret \in {"handled", "not-handled"}
       /\ (op'.ret = "handled") <=> (Len(committed') = 1)
       /\ (op'.ret = "not-handled")
            <=> (/\ editorState' = editorState
                 /\ focus' = focus
                 /\ entityMap' = entityMap
                 /\ committed' = << >>
                 /\ notified' = << >>)]_vars

\* Reached: a backspace RichUtils handled has been stored and delivered.
C25_Witness ==
  /\ op.kind = "handleKeyCommand" /\ op.arg = "backspace" /\ op.ret = "handled"
  /\ Len(committed) = 1
  /\ Len(notified) = 1

\* C26: the confirmation of a prompt is derived from the revision stored at
\* that moment.  A link is put on the characters of a selection or inserted
\* at a cursor, so the blocks of the stored document and their types are
\* after the confirmation what they were before it, whatever was committed
\* while the prompt was open.
C26_ConfirmKeepsInterveningRevision ==
  [][op'.kind = "confirm" =>
       /\ Len(editorState'.content) = Len(editorState.content)
       /\ \A b \in 1..Len(editorState.content) :
            editorState'.content[b].type = editorState.content[b].type]_vars

\* ------------------------------------------------- a prompt without report
\* The promise of ModalActions.open fulfilled without a call of
\* handleLinkChange in this prompt: the then handler reads
\* this.state.linkState.href as it stands.  With linkState null the read
\* throws inside the handler and the catch handler takes the exception.
\* The step takes a prompt away, so the open prompts bound it.
PromptFulfilledUnreported ==
  /\ \E i \in 1..Len(prompts) :
       LET p == prompts[i] IN
       /\ prompts' = without(prompts, i)
       /\ IF ~linkState.set
          THEN /\ UNCHANGED << editorState, focus, entityMap, lastValue >>
               /\ committed' = << >>
               /\ notified' = << >>
               /\ op' = Op("fulfilled", p.action, "throws", "", p.link.found,
                           isCollapsed(p.es.sel))
          ELSE LET c == linkConfirmed(p, linkState.href, entityMap)
                   r == handleEditorChange(c.es, c.em)
               IN /\ editorState' = r.es
                  /\ focus' = r.focus
                  /\ entityMap' = r.em
                  /\ committed' = << convertContentTo(r.es.content, props.type, r.em) >>
                  /\ notified' = << onChangeValue(editorState', entityMap') >>
                  /\ lastValue' = notified'[1]
                  /\ op' = Op("fulfilled", p.action, "", linkState.href, p.link.found,
                              isCollapsed(p.es.sel))
  /\ UNCHANGED << props, linkState, events >>

NextOfPrompts ==
  \/ Next
  \/ PromptFulfilledUnreported

SpecOfPrompts == Init /\ [][NextOfPrompts]_vars

\* C27: the href applied at the confirmation of a prompt is the one reported
\* through handleLinkChange during that prompt.  A prompt fulfilled without
\* a report applies no href: nothing is handed to handleEditorChange and
\* the stored revision stays, whether linkState is null or holds the href of
\* an earlier prompt.
C27_HrefOfTheSamePrompt ==
  [][/\ op'.kind = "confirm" => (linkState'.set /\ op'.href = linkState'.href)
     /\ op'.kind = "fulfilled"
          => /\ committed' = << >>
             /\ notified' = << >>
             /\ editorState' = editorState
             /\ entityMap' = entityMap]_vars

\* The part of C27 that holds: with linkState null the fulfilment ends in
\* the catch handler, the revision as it was.
C27_NullLinkStateChangesNothing ==
  [][(op'.kind = "fulfilled" /\ ~linkState.set)
       => /\ op'.ret = "throws"
          /\ committed' = << >>
          /\ editorState' = editorState]_vars

\* C28: after the constructor the focus flag is false; every step that hands
\* a revision to handleEditorChange stores, together with the revision, the
\* has-focus flag of the selection of the revision stored (the styles and
\* the links converted); a step that hands none leaves both as they were.
C28_FocusFollowsStoredSelection ==
  /\ op.kind = "constructor" => (focus = FALSE /\ ~editorState.sel.hasFocus)
  /\ [][/\ Len(committed') >= 1 => focus' = editorState'.sel.hasFocus
        /\ Len(committed') = 0 => (focus' = focus /\ editorState' = editorState)]_vars

\* Reached: under convertLinksInline a revision with a link, its selection
\* having the focus, has been stored with the flag set.
C28_Witness ==
  /\ Len(committed) = 1
  /\ focus
  /\ editorState.sel.hasFocus
  /\ props.convertLinksInline
  /\ UsedKeys(editorState.content) # {}

\* C29: the constructor delivers nothing to onChange, also when the
\* conversion of the styles and of the links makes the serialized initial
\* revision differ from props.value; a value is delivered only by a step
\* that hands a revision to handleEditorChange.
C29_MountDoesNotNotify ==
  /\ op.kind = "constructor"
       => (notified = << >> /\ committed = << >> /\ lastValue.fmt = "none")
  /\ [][Len(notified') >= 1 => Len(committed') >= 1]_vars

\* Reached: after the constructor, nothing delivered, the stored revision
\* holds a link the conversion made and serializes to none of the values
\* the host can have supplied.
C29_Witness ==
  /\ op.kind = "constructor"
  /\ notified = << >>
  /\ props.convertLinksInline
  /\ UsedKeys(editorState.content) # {}
  /\ \A value \in ValuesOf(props.type) :
       convertContentTo(editorState.content, props.type, entityMap) # value

=============================================================================
